---- MODULE Spec2Model ----
(***************************************************************************)
(* Authorization and session-lifecycle core of MyRuubix:                   *)
(*   - the role / permission model            (core/domain/models/User.ts) *)
(*   - the role assignment workflow           (FirebaseRoleRepository)     *)
(*   - the session manager and its guard      (AuthContext, FirebaseAuth-  *)
(*                                              Repository)                *)
(* Every asynchronous method is split at its awaits: one action per step.  *)
(***************************************************************************)
EXTENDS Naturals, Integers, Sequences, FiniteSets, TLC

(***************************************************************************)
(* Role / permission model                                                 *)
(***************************************************************************)
SUPER_ADMIN == "super_admin"
ADMIN == "admin"
USER == "user"

UserRole == {SUPER_ADMIN, ADMIN, USER}

Permission ==
  {"manage_users", "view_users", "delete_users", "edit_user_profiles",
   "assign_admin_role", "revoke_admin_role", "manage_roles",
   "view_analytics", "manage_system", "access_admin_panel", "view_audit_logs",
   "export_user_data", "unlimited_solves", "access_premium_features",
   "export_solve_data", "access_ai_solver", "moderate_content",
   "manage_leaderboards", "send_notifications", "api_access", "beta_features"}

\* The arrays of ROLE_PERMISSIONS, in source order.
ROLE_PERMISSIONS ==
  [r \in UserRole |->
     CASE r = SUPER_ADMIN ->
            <<"manage_users", "view_users", "delete_users", "edit_user_profiles",
              "assign_admin_role", "revoke_admin_role", "manage_roles",
              "view_analytics", "manage_system", "access_admin_panel",
              "view_audit_logs", "export_user_data", "unlimited_solves",
              "access_premium_features", "export_solve_data", "access_ai_solver",
              "moderate_content", "manage_leaderboards", "send_notifications",
              "api_access", "beta_features">>
       [] r = ADMIN ->
            <<"manage_users", "view_users", "delete_users", "edit_user_profiles",
              "view_analytics", "manage_system", "access_admin_panel",
              "view_audit_logs", "export_user_data", "unlimited_solves",
              "access_premium_features", "export_solve_data", "access_ai_solver",
              "moderate_content", "manage_leaderboards", "send_notifications",
              "api_access", "beta_features">>
       [] OTHER ->
            <<"export_solve_data", "access_premium_features", "access_ai_solver">>]

getPermissionsForRole(role) ==
  IF role \in DOMAIN ROLE_PERMISSIONS THEN ROLE_PERMISSIONS[role] ELSE << >>

getRoleLevel(role) ==
  CASE role = USER -> 1
    [] role = ADMIN -> 2
    [] role = SUPER_ADMIN -> 3
    [] OTHER -> 0

\* Array.prototype.includes
includes(arr, x) == \E i \in 1..Len(arr) : arr[i] = x

isAdminOrHigher(promoter) == promoter.role \in {SUPER_ADMIN, ADMIN}

\* canPromoteUser with the promotion to admin open to admins.
canPromoteUser_AdminPromotes(promoter, targetRole) ==
  IF targetRole = ADMIN THEN isAdminOrHigher(promoter)
  ELSE IF targetRole = USER THEN isAdminOrHigher(promoter)
  ELSE FALSE

\* UserRoleUtils.canPromoteUser(promoter, targetRole)
canPromoteUser(promoter, targetRole) ==
  IF targetRole = ADMIN THEN promoter.role = SUPER_ADMIN
  ELSE IF targetRole = USER THEN isAdminOrHigher(promoter)
  ELSE FALSE

\* validateRoleAssignment with the admin branch widened to the admin role.
validateRoleAssignment_AdminAssignsAdmin(assignerRole, targetRole) ==
  IF assignerRole = SUPER_ADMIN THEN TRUE
  ELSE IF assignerRole = ADMIN /\ targetRole \in {USER, ADMIN} THEN TRUE
  ELSE FALSE

\* FirebaseRoleRepository.validateRoleAssignment(assignerRole, targetRole)
validateRoleAssignment(assignerRole, targetRole) ==
  IF assignerRole = SUPER_ADMIN THEN TRUE
  ELSE IF assignerRole = ADMIN /\ targetRole = USER THEN TRUE
  ELSE FALSE


(***************************************************************************)
(* Bounds                                                                  *)
(***************************************************************************)
\* Number of role-change request documents that can be created.
MaxRequests == 1
\* Number of role-changing repository calls (assign, remove, approve, reject)
\* started in one behaviour.
MaxCalls == 2
\* Attempts runTransaction makes before it gives up on a contended document.
MaxAttempts == 2
\* Last value of the clock.
MaxClock == 1

UserIds == {"sa", "ad", "us"}
RequestIds == 1..MaxRequests
Callers == {"c1", "c2"}

\* A missing Firestore document, JavaScript null, and an unset string field.
NoDoc == [missing |-> TRUE]
null == [null |-> TRUE]
None == "none"

(***************************************************************************)
(* State                                                                   *)
(***************************************************************************)
VARIABLES
  users,      \* Firestore collection 'users': id -> document or NoDoc
  requests,   \* Firestore collection 'role_requests': id -> document or NoDoc
  audit,      \* Firestore collection 'audit_logs', in commit order
  rp,         \* one record per in-flight FirebaseRoleRepository call
  ncalls,     \* role-changing repository calls started so far
  authAccounts,     \* Firebase Auth: uids of the registered accounts
  authCurrentUser,  \* Firebase auth.currentUser: a uid or None
  user,             \* AuthProvider state 'user': the Principal or null
  loading,          \* AuthProvider state 'loading'
  error,            \* AuthProvider state 'error': an error code or None
  isAuthenticated,  \* AuthProvider state 'isAuthenticated'
  isInitialized,    \* AuthProvider state 'isInitialized'
  cache,            \* SecureStorage item 'user_cache' or null
  timerUser,        \* 'user' captured by the armed refresh interval, or null
  now,              \* the clock read by new Date()
  task              \* the pending asynchronous operations of the AuthProvider:
                    \* "fg" the foreground one (initializeAuth, signOut),
                    \* "timer" a callback of the refresh interval,
                    \* "manual" a refreshUser() call

roleVars == <<users, requests, audit, rp, ncalls, authAccounts>>
sessionVars == <<authCurrentUser, user, loading, error, isAuthenticated,
                 isInitialized, cache, timerUser, now, task>>
vars == <<users, requests, audit, rp, ncalls, authAccounts, authCurrentUser, user, loading,
          error, isAuthenticated, isInitialized, cache, timerUser, now, task>>

UserDoc(role) == [role |-> role, permissions |-> getPermissionsForRole(role), isActive |-> TRUE]

IdleCall ==
  [pc |-> "idle", op |-> None, userId |-> None, newRole |-> None, by |-> None,
   requestId |-> 0, currentRole |-> None, assignerRole |-> None,
   reqUserId |-> None, requestedRole |-> None,
   staleUser |-> FALSE, staleRequest |-> FALSE,
   attempt |-> 0, outerAttempt |-> 0, result |-> None, wrote |-> 0,
   elevatedAtCall |-> FALSE]

RoleInit ==
  /\ users = [u \in UserIds |->
                 CASE u = "sa" -> UserDoc(SUPER_ADMIN)
                   [] u = "ad" -> UserDoc(ADMIN)
                   [] OTHER -> UserDoc(USER)]
  /\ requests = [r \in RequestIds |-> NoDoc]
  /\ audit = << >>
  /\ rp = [c \in Callers |-> IdleCall]
  /\ ncalls = 0
  /\ authAccounts = UserIds

(***************************************************************************)
(* Firestore helpers                                                       *)
(***************************************************************************)
exists(coll, id) == coll[id] # NoDoc

\* A committed write to users/<u> invalidates every other open transaction
\* that has read that document (optimistic concurrency of runTransaction).
MarkUserWritten(calls, c, u) ==
  [d \in Callers |->
     IF d # c /\ calls[d].pc \in {"as_role", "as_commit", "rm_role", "rm_commit"}
            /\ calls[d].userId = u
     THEN [calls[d] EXCEPT !.staleUser = TRUE]
     ELSE calls[d]]

\* The same for role_requests/<r>; only approveRoleChangeRequest reads it in
\* a transaction.
MarkRequestWritten(calls, c, r) ==
  [d \in Callers |->
     IF d # c /\ calls[d].op = "approve"
            /\ calls[d].pc \in {"ap_role", "as_get", "as_role", "as_commit", "ap_commit"}
            /\ calls[d].requestId = r
     THEN [calls[d] EXCEPT !.staleRequest = TRUE]
     ELSE calls[d]]

\* The call of caller c returns (resolves with "ok" or rejects with an error).
Return(calls, c, result) ==
  [calls EXCEPT ![c].pc = "done", ![c].result = result,
                ![c].staleUser = FALSE, ![c].staleRequest = FALSE,
                ![c].attempt = 0, ![c].outerAttempt = 0,
                ![c].reqUserId = None, ![c].requestedRole = None]

\* Caller c may start a call; the callers being interchangeable, the second
\* one is used only for a call that overlaps one of the first.
CanCall(c) ==
  /\ rp[c].pc \in {"idle", "done"}
  /\ ncalls < MaxCalls
  /\ c = "c2" => rp["c1"].pc \notin {"idle", "done"}

\* FirebaseRoleRepository.getUserRole: the stored role, USER when the
\* document is missing or the read throws.
getUserRole(userId, readOk) ==
  IF readOk /\ exists(users, userId) THEN users[userId].role ELSE USER

(***************************************************************************)
(* FirebaseRoleRepository.assignRole                                       *)
(***************************************************************************)
\* transaction.get(userRef) of the caller c of calls; 'User not found' when
\* the document is missing.
TxGetUser(calls, c, readOk, next) ==
  IF ~readOk THEN Return(calls, c, "TxFailed")
  ELSE IF ~exists(users, calls[c].userId) THEN Return(calls, c, "UserNotFound")
  ELSE [calls EXCEPT ![c].pc = next,
                     ![c].currentRole = users[calls[c].userId].role,
                     ![c].staleUser = FALSE]

\* A caller invokes assignRole(assignment): runTransaction starts and the
\* update function reads the target document.
AssignRoleCall(c, userId, newRole, assignedBy) ==
  /\ CanCall(c)
  /\ \E readOk \in BOOLEAN :
       rp' = TxGetUser([rp EXCEPT ![c] = [IdleCall EXCEPT !.op = "assignRole",
                                            !.userId = userId, !.newRole = newRole,
                                            !.by = assignedBy, !.attempt = 1]],
                       c, readOk, "as_role")
  /\ ncalls' = ncalls + 1
  /\ UNCHANGED <<users, requests, audit>>
  /\ UNCHANGED <<authAccounts, sessionVars>>

\* The update function of assignRole is run (again, or inside an approval).
AsGet(c) ==
  /\ rp[c].pc = "as_get"
  /\ \E readOk \in BOOLEAN : rp' = TxGetUser(rp, c, readOk, "as_role")
  /\ UNCHANGED <<users, requests, audit, ncalls>>
  /\ UNCHANGED <<authAccounts, sessionVars>>

\* The same without the call of validateRoleAssignment.
AsRole_NoValidation(c) ==
  /\ rp[c].pc = "as_role"
  /\ \E readOk \in BOOLEAN :
       rp' = [rp EXCEPT ![c].pc = "as_commit",
                        ![c].assignerRole = getUserRole(rp[c].by, readOk)]
  /\ UNCHANGED <<users, requests, audit, ncalls>>
  /\ UNCHANGED <<authAccounts, sessionVars>>

\* getUserRole(assignedBy) outside the transaction, then validateRoleAssignment.
AsRole(c) ==
  /\ rp[c].pc = "as_role"
  /\ \E readOk \in BOOLEAN :
       LET assignerRole == getUserRole(rp[c].by, readOk) IN
       rp' = IF ~validateRoleAssignment(assignerRole, rp[c].newRole)
             THEN Return([rp EXCEPT ![c].assignerRole = assignerRole], c, "PermissionDenied")
             ELSE [rp EXCEPT ![c].pc = "as_commit", ![c].assignerRole = assignerRole]
  /\ UNCHANGED <<users, requests, audit, ncalls>>
  /\ UNCHANGED <<authAccounts, sessionVars>>

\* AssignedDoc without the update of the permission set.
AssignedDoc_RoleOnly(doc, newRole) == [doc EXCEPT !.role = newRole]

\* What the transaction of assignRole writes to users/<userId>.
AssignedDoc(doc, newRole) ==
  [doc EXCEPT !.role = newRole, !.permissions = getPermissionsForRole(newRole)]

\* Commit of the transaction: the user update and the audit entry are applied
\* together, or the function is run again when the user document has changed
\* since it was read, or the commit fails.
AsCommit(c) ==
  /\ rp[c].pc = "as_commit"
  /\ IF rp[c].staleUser
     THEN /\ rp' = IF rp[c].attempt < MaxAttempts
                   THEN [rp EXCEPT ![c].pc = "as_get", ![c].attempt = @ + 1]
                   ELSE Return(rp, c, "TxFailed")
          /\ UNCHANGED <<users, audit>>
     ELSE \E commitOk \in BOOLEAN :
            IF commitOk
            THEN /\ users' = [users EXCEPT ![rp[c].userId] = AssignedDoc(@, rp[c].newRole)]
                 /\ audit' = Append(audit, [action |-> "role_assigned",
                                            performedBy |-> rp[c].by,
                                            targetUserId |-> rp[c].userId,
                                            previousRole |-> rp[c].currentRole,
                                            newRole |-> rp[c].newRole])
                 /\ rp' = MarkUserWritten(
                            IF rp[c].op = "approve"
                            THEN [rp EXCEPT ![c].pc = "ap_commit", ![c].wrote = @ + 1]
                            ELSE Return([rp EXCEPT ![c].wrote = @ + 1], c, "ok"),
                            c, rp[c].userId)
            ELSE /\ rp' = Return(rp, c, "TxFailed")
                 /\ UNCHANGED <<users, audit>>
  /\ UNCHANGED <<requests, ncalls>>
  /\ UNCHANGED <<authAccounts, sessionVars>>

(***************************************************************************)
(* FirebaseRoleRepository.removeRole                                       *)
(***************************************************************************)
\* A caller invokes removeRole(userId, removedBy): runTransaction starts and
\* the update function reads the target document.
RemoveRoleCall(c, userId, removedBy) ==
  /\ CanCall(c)
  /\ \E readOk \in BOOLEAN :
       rp' = TxGetUser([rp EXCEPT ![c] = [IdleCall EXCEPT !.op = "removeRole",
                                            !.userId = userId, !.newRole = USER,
                                            !.by = removedBy, !.attempt = 1]],
                       c, readOk, "rm_role")
  /\ ncalls' = ncalls + 1
  /\ UNCHANGED <<users, requests, audit>>
  /\ UNCHANGED <<authAccounts, sessionVars>>

\* The update function of removeRole is run again.
RmGet(c) ==
  /\ rp[c].pc = "rm_get"
  /\ \E readOk \in BOOLEAN : rp' = TxGetUser(rp, c, readOk, "rm_role")
  /\ UNCHANGED <<users, requests, audit, ncalls>>
  /\ UNCHANGED <<authAccounts, sessionVars>>

\* RmRole without the guard on a super admin target.
RmRole_NoSuperAdminGuard(c) ==
  /\ rp[c].pc = "rm_role"
  /\ \E readOk \in BOOLEAN :
       LET removerRole == getUserRole(rp[c].by, readOk) IN
       rp' = IF ~validateRoleAssignment(removerRole, USER)
             THEN Return([rp EXCEPT ![c].assignerRole = removerRole], c, "PermissionDenied")
             ELSE [rp EXCEPT ![c].pc = "rm_commit", ![c].assignerRole = removerRole]
  /\ UNCHANGED <<users, requests, audit, ncalls>>
  /\ UNCHANGED <<authAccounts, sessionVars>>

\* getUserRole(removedBy), validateRoleAssignment(removerRole, USER), then the
\* guard on a super admin target.
RmRole(c) ==
  /\ rp[c].pc = "rm_role"
  /\ \E readOk \in BOOLEAN :
       LET removerRole == getUserRole(rp[c].by, readOk) IN
       rp' = IF ~validateRoleAssignment(removerRole, USER)
             THEN Return([rp EXCEPT ![c].assignerRole = removerRole], c, "PermissionDenied")
             ELSE IF rp[c].currentRole = SUPER_ADMIN
             THEN Return([rp EXCEPT ![c].assignerRole = removerRole], c, "CannotRemoveSuperAdmin")
             ELSE [rp EXCEPT ![c].pc = "rm_commit", ![c].assignerRole = removerRole]
  /\ UNCHANGED <<users, requests, audit, ncalls>>
  /\ UNCHANGED <<authAccounts, sessionVars>>

RmCommit(c) ==
  /\ rp[c].pc = "rm_commit"
  /\ IF rp[c].staleUser
     THEN /\ rp' = IF rp[c].attempt < MaxAttempts
                   THEN [rp EXCEPT ![c].pc = "rm_get", ![c].attempt = @ + 1]
                   ELSE Return(rp, c, "TxFailed")
          /\ UNCHANGED <<users, audit>>
     ELSE \E commitOk \in BOOLEAN :
            IF commitOk
            THEN /\ users' = [users EXCEPT ![rp[c].userId] = AssignedDoc(@, USER)]
                 /\ audit' = Append(audit, [action |-> "role_removed",
                                            performedBy |-> rp[c].by,
                                            targetUserId |-> rp[c].userId,
                                            previousRole |-> rp[c].currentRole,
                                            newRole |-> USER])
                 /\ rp' = MarkUserWritten(Return([rp EXCEPT ![c].wrote = @ + 1], c, "ok"),
                                          c, rp[c].userId)
            ELSE /\ rp' = Return(rp, c, "TxFailed")
                 /\ UNCHANGED <<users, audit>>
  /\ UNCHANGED <<requests, ncalls>>
  /\ UNCHANGED <<authAccounts, sessionVars>>

(***************************************************************************)
(* Role change requests                                                    *)
(***************************************************************************)
RequestDoc(userId, requestedRole) ==
  [userId |-> userId, requestedRole |-> requestedRole, status |-> "pending",
   approved |-> FALSE, approvedBy |-> None, rejectedBy |-> None]

\* doc(collection(...)) allocates a fresh document id.
FreshRequestId == CHOOSE r \in RequestIds :
                    /\ requests[r] = NoDoc
                    /\ \A q \in RequestIds : requests[q] = NoDoc => r <= q

\* createRoleChangeRequest: one setDoc of the request with status 'pending'
\* under a fresh id; nothing is written when setDoc throws.
CreateRoleChangeRequest(userId, requestedRole) ==
  /\ \E r \in RequestIds : requests[r] = NoDoc
  /\ requests' = [requests EXCEPT ![FreshRequestId] = RequestDoc(userId, requestedRole)]
  /\ UNCHANGED <<users, audit, rp, ncalls>>
  /\ UNCHANGED <<authAccounts, sessionVars>>

\* transaction.get(requestRef), existence check, then the check of the
\* 'approved' flag.
TxGetRequest(calls, c, readOk) ==
  LET r == calls[c].requestId IN
  IF ~readOk THEN Return(calls, c, "TxFailed")
  ELSE IF ~exists(requests, r) THEN Return(calls, c, "RequestNotFound")
  ELSE IF requests[r].approved THEN Return(calls, c, "AlreadyProcessed")
  ELSE [calls EXCEPT ![c].pc = "ap_role",
                     ![c].reqUserId = requests[r].userId,
                     ![c].requestedRole = requests[r].requestedRole,
                     ![c].staleRequest = FALSE]

\* A caller invokes approveRoleChangeRequest: runTransaction starts and the
\* update function reads the request document.
ApproveCall(c, requestId, approvedBy) ==
  /\ CanCall(c)
  /\ \E readOk \in BOOLEAN :
       rp' = TxGetRequest([rp EXCEPT ![c] = [IdleCall EXCEPT !.op = "approve",
                                               !.requestId = requestId,
                                               !.by = approvedBy, !.outerAttempt = 1]],
                          c, readOk)
  /\ ncalls' = ncalls + 1
  /\ UNCHANGED <<users, requests, audit>>
  /\ UNCHANGED <<authAccounts, sessionVars>>

\* The update function of approveRoleChangeRequest is run again.
ApGet(c) ==
  /\ rp[c].pc = "ap_get"
  /\ \E readOk \in BOOLEAN : rp' = TxGetRequest(rp, c, readOk)
  /\ UNCHANGED <<users, requests, audit, ncalls>>
  /\ UNCHANGED <<authAccounts, sessionVars>>

\* getUserRole(approvedBy), validateRoleAssignment against requestedRole; on
\* success this.assignRole(...) is called and starts its own transaction.
ApRole(c) ==
  /\ rp[c].pc = "ap_role"
  /\ \E readOk \in BOOLEAN :
       LET approverRole == getUserRole(rp[c].by, readOk) IN
       rp' = IF ~validateRoleAssignment(approverRole, rp[c].requestedRole)
             THEN Return([rp EXCEPT ![c].assignerRole = approverRole], c, "PermissionDenied")
             ELSE [rp EXCEPT ![c].pc = "as_get", ![c].assignerRole = approverRole,
                             ![c].userId = rp[c].reqUserId,
                             ![c].newRole = rp[c].requestedRole,
                             ![c].attempt = 1]
  /\ UNCHANGED <<users, requests, audit, ncalls>>
  /\ UNCHANGED <<authAccounts, sessionVars>>

\* What approveRoleChangeRequest writes to the request document.
ApprovedDoc(doc, approvedBy) ==
  [doc EXCEPT !.approved = TRUE, !.approvedBy = approvedBy, !.status = "approved"]

\* Commit of the outer transaction, after the inner assignRole has returned.
ApCommit(c) ==
  /\ rp[c].pc = "ap_commit"
  /\ IF rp[c].staleRequest
     THEN /\ rp' = IF rp[c].outerAttempt < MaxAttempts
                   THEN [rp EXCEPT ![c].pc = "ap_get", ![c].outerAttempt = @ + 1]
                   ELSE Return(rp, c, "TxFailed")
          /\ UNCHANGED requests
     ELSE \E commitOk \in BOOLEAN :
            IF commitOk
            THEN /\ requests' = [requests EXCEPT ![rp[c].requestId] = ApprovedDoc(@, rp[c].by)]
                 /\ rp' = MarkRequestWritten(Return(rp, c, "ok"), c, rp[c].requestId)
            ELSE /\ rp' = Return(rp, c, "TxFailed")
                 /\ UNCHANGED requests
  /\ UNCHANGED <<users, audit, ncalls>>
  /\ UNCHANGED <<authAccounts, sessionVars>>

\* A caller invokes rejectRoleChangeRequest: getDoc(requestRef), existence
\* check, then the check of the 'approved' flag.
RejectCall(c, requestId, rejectedBy) ==
  /\ CanCall(c)
  /\ \E readOk \in BOOLEAN :
       LET call == [IdleCall EXCEPT !.op = "reject", !.requestId = requestId,
                                    !.by = rejectedBy]
           started == [rp EXCEPT ![c] = call]
       IN rp' = IF ~readOk THEN Return(started, c, "StoreError")
                ELSE IF ~exists(requests, requestId) THEN Return(started, c, "RequestNotFound")
                ELSE IF requests[requestId].approved THEN Return(started, c, "AlreadyProcessed")
                ELSE [started EXCEPT ![c].pc = "rj_update"]
  /\ ncalls' = ncalls + 1
  /\ UNCHANGED <<users, requests, audit>>
  /\ UNCHANGED <<authAccounts, sessionVars>>

\* What rejectRoleChangeRequest writes to the request document.
RejectedDoc(doc, rejectedBy) ==
  [doc EXCEPT !.approved = FALSE, !.rejectedBy = rejectedBy, !.status = "rejected"]

\* updateDoc(requestRef, {...}) outside any transaction.
RjUpdate(c) ==
  /\ rp[c].pc = "rj_update"
  /\ \E writeOk \in BOOLEAN :
       IF writeOk
       THEN /\ requests' = [requests EXCEPT ![rp[c].requestId] = RejectedDoc(@, rp[c].by)]
            /\ rp' = MarkRequestWritten(Return(rp, c, "ok"), c, rp[c].requestId)
       ELSE /\ rp' = Return(rp, c, "StoreError")
            /\ UNCHANGED requests
  /\ UNCHANGED <<users, audit, ncalls>>
  /\ UNCHANGED <<authAccounts, sessionVars>>



(***************************************************************************)
(* Session manager: FirebaseAuthRepository.getCurrentUser                  *)
(***************************************************************************)
\* Accounts that hold a session on this device, and the roles other clients
\* give them while the session lasts.
SessionUids == {"ad"}
SessionRoles == {ADMIN, USER}
TaskIds == {"fg", "timer", "manual"}

\* The User object the repository returns: {...user, role, permissions}.
Principal(id, role, permissions, isActive) ==
  [id |-> id, role |-> role, permissions |-> permissions, isActive |-> isActive]

NoFetch == [pc |-> "none", uid |-> None, isActive |-> FALSE, role |-> None,
            result |-> null, failed |-> FALSE]
FreeTask == [pc |-> "free", kind |-> None, closure |-> null, g |-> NoFetch,
             repoOk |-> FALSE]

\* getCurrentUser up to its first await: auth.currentUser is read; without a
\* Firebase user the method returns null.
GcStart ==
  IF authCurrentUser = None
  THEN [NoFetch EXCEPT !.pc = "ret"]
  ELSE [NoFetch EXCEPT !.pc = "gc_user", !.uid = authCurrentUser]

Fetching(t) == task[t].pc \in {"init_fetch", "fetch", "si_fetch"}

\* getUserFromFirestore returns (null when the document is missing or the
\* read throws); on null getCurrentUser calls signOut(auth), which may throw
\* into the catch block, and returns null.
GetUserFromFirestore(t) ==
  /\ Fetching(t) /\ task[t].g.pc = "gc_user"
  /\ \E readOk \in BOOLEAN :
       LET g == task[t].g IN
       IF readOk /\ exists(users, g.uid)
       THEN /\ task' = [task EXCEPT ![t].g = [g EXCEPT !.pc = "gc_role",
                                                 !.isActive = users[g.uid].isActive]]
            /\ UNCHANGED authCurrentUser
       ELSE /\ task' = [task EXCEPT ![t].g = [g EXCEPT !.pc = "ret", !.result = null,
                                                 !.failed = ~readOk]]
            /\ \E signOutOk \in BOOLEAN :
                 authCurrentUser' = IF signOutOk THEN None ELSE authCurrentUser
  /\ UNCHANGED <<user, loading, error, isAuthenticated, isInitialized, cache, timerUser, now>>
  /\ UNCHANGED roleVars

\* FirebaseAuthRepository.validateUserRole: the stored role, USER when the
\* document is missing or the read throws.
validateUserRole(userId, readOk) ==
  IF readOk /\ exists(users, userId) THEN users[userId].role ELSE USER

ValidateUserRole(t) ==
  /\ Fetching(t) /\ task[t].g.pc = "gc_role"
  /\ \E readOk \in BOOLEAN :
       LET g == task[t].g IN
       task' = [task EXCEPT ![t].g = [g EXCEPT !.pc = "gc_perms",
                                         !.role = validateUserRole(g.uid, readOk),
                                         !.failed = g.failed \/ ~readOk]]
  /\ UNCHANGED <<authCurrentUser, user, loading, error, isAuthenticated,
                 isInitialized, cache, timerUser, now>>
  /\ UNCHANGED roleVars

\* refreshUserPermissions reads the role again and maps it to permissions;
\* getCurrentUser then returns {...user, role, permissions}.
RefreshUserPermissions(t) ==
  /\ Fetching(t) /\ task[t].g.pc = "gc_perms"
  /\ \E readOk \in BOOLEAN :
       LET g == task[t].g
           permissions == getPermissionsForRole(validateUserRole(g.uid, readOk))
       IN task' = [task EXCEPT ![t].g = [g EXCEPT !.pc = "ret",
                      !.result = Principal(g.uid, g.role, permissions, g.isActive),
                      !.failed = g.failed \/ ~readOk]]
  /\ UNCHANGED <<authCurrentUser, user, loading, error, isAuthenticated,
                 isInitialized, cache, timerUser, now>>
  /\ UNCHANGED roleVars

(***************************************************************************)
(* Session manager: AuthProvider                                           *)
(***************************************************************************)
\* Fingerprint with the permissions left out.
Fingerprint_NoPermissions(u) ==
  [id |-> u.id, role |-> u.role, permissions |-> << >>, lastRefresh |-> now]

\* The JSON written to 'user_cache'.
Fingerprint(u) ==
  [id |-> u.id, role |-> u.role, permissions |-> u.permissions, lastRefresh |-> now]

\* The effect without the test of isAuthenticated.
Effect_UserOnly(u, authenticated) == u

\* The auto-refresh effect, run after every state update of its dependencies:
\* the interval is armed with the current 'user' iff isAuthenticated && user.
Effect(u, authenticated) == IF authenticated /\ u # null THEN u ELSE null

\* initializeAuth showing the user of 'user_cache' until the fetch returns.
InitializeAuth_FromCache ==
  /\ task["fg"].pc = "init"
  /\ loading' = TRUE
  /\ user' = IF cache # null
             THEN Principal(cache.id, cache.role, cache.permissions, TRUE)
             ELSE user
  /\ task' = [task EXCEPT !["fg"] = [FreeTask EXCEPT !.pc = "init_fetch", !.kind = "init",
                                     !.g = GcStart]]
  /\ UNCHANGED <<authCurrentUser, error, isAuthenticated, isInitialized,
                 cache, timerUser, now>>
  /\ UNCHANGED roleVars

\* initializeAuth up to its first await.
InitializeAuth ==
  /\ task["fg"].pc = "init"
  /\ loading' = TRUE
  /\ task' = [task EXCEPT !["fg"] = [FreeTask EXCEPT !.pc = "init_fetch", !.kind = "init",
                                     !.g = GcStart]]
  /\ UNCHANGED <<authCurrentUser, user, error, isAuthenticated, isInitialized,
                 cache, timerUser, now>>
  /\ UNCHANGED roleVars

\* initializeAuth after getCurrentUser has returned: install the user and
\* write the cache, or clear the cache; the catch block on a storage error.
InitializeAuthFinish ==
  /\ task["fg"].pc = "init_fetch" /\ task["fg"].g.pc = "ret"
  /\ LET currentUser == task["fg"].g.result IN
     \E storageOk \in BOOLEAN, removeOk \in BOOLEAN :
       /\ user' = currentUser
       /\ IF storageOk
          THEN /\ isAuthenticated' = (currentUser # null)
               /\ cache' = IF currentUser # null THEN Fingerprint(currentUser) ELSE null
               /\ isInitialized' = TRUE
               /\ removeOk
               /\ UNCHANGED error
          ELSE /\ isAuthenticated' = FALSE
               /\ error' = "unknown"
               /\ cache' = IF removeOk THEN null ELSE cache
               /\ UNCHANGED isInitialized
       /\ timerUser' = Effect(user', isAuthenticated')
  /\ loading' = FALSE
  /\ task' = [task EXCEPT !["fg"] = [FreeTask EXCEPT !.pc = "idle", !.kind = "init"]]
  /\ UNCHANGED <<authCurrentUser, now>>
  /\ UNCHANGED roleVars

\* A tick of the armed interval: the callback starts with the 'user' of the
\* render that armed it and calls refreshUserData.
TimerTick ==
  /\ timerUser # null
  /\ task["timer"].pc = "free"
  /\ task' = [task EXCEPT !["timer"] = [FreeTask EXCEPT !.pc = "fetch", !.kind = "timer",
                                           !.closure = timerUser, !.g = GcStart]]
  /\ UNCHANGED <<authCurrentUser, user, loading, error, isAuthenticated,
                 isInitialized, cache, timerUser, now>>
  /\ UNCHANGED roleVars

\* The interval callback after refreshUserData has returned.
TimerFinish ==
  /\ task["timer"].pc = "fetch" /\ task["timer"].g.pc = "ret"
  /\ LET refreshedUser == task["timer"].g.result
         closureUser == task["timer"].closure
         changed == /\ refreshedUser # null
                    /\ refreshedUser.id = closureUser.id
                    /\ \/ refreshedUser.role # closureUser.role
                       \/ refreshedUser.permissions # closureUser.permissions
     IN IF changed
        THEN /\ user' = refreshedUser
             /\ \E storageOk \in BOOLEAN :
                  cache' = IF storageOk THEN Fingerprint(refreshedUser) ELSE cache
        ELSE UNCHANGED <<user, cache>>
  /\ timerUser' = Effect(user', isAuthenticated)
  /\ task' = [task EXCEPT !["timer"] = FreeTask]
  /\ UNCHANGED <<authCurrentUser, loading, error, isAuthenticated, isInitialized, now>>
  /\ UNCHANGED roleVars

\* The screens that offer refresh and sign-out are mounted: AppNavigator shows
\* the loading screen while !isInitialized || loading, and RoleBasedNavigator
\* shows the sign-in screens while !isAuthenticated || !user.
MainMounted == isInitialized /\ ~loading /\ isAuthenticated /\ user # null

\* refreshUser() up to its first await.
RefreshUser ==
  /\ task["manual"].pc = "free"
  /\ MainMounted
  /\ task' = [task EXCEPT !["manual"] = [FreeTask EXCEPT !.pc = "fetch", !.kind = "manual",
                                            !.g = GcStart]]
  /\ UNCHANGED <<authCurrentUser, user, loading, error, isAuthenticated,
                 isInitialized, cache, timerUser, now>>
  /\ UNCHANGED roleVars

\* refreshUser() after refreshUserData has returned.
RefreshUserFinish ==
  /\ task["manual"].pc = "fetch" /\ task["manual"].g.pc = "ret"
  /\ LET refreshedUser == task["manual"].g.result IN
     IF refreshedUser # null
     THEN /\ user' = refreshedUser
          /\ \E storageOk \in BOOLEAN :
               IF storageOk
               THEN cache' = Fingerprint(refreshedUser) /\ UNCHANGED error
               ELSE error' = "unknown" /\ UNCHANGED cache
     ELSE UNCHANGED <<user, cache, error>>
  /\ timerUser' = Effect(user', isAuthenticated)
  /\ task' = [task EXCEPT !["manual"] = FreeTask]
  /\ UNCHANGED <<authCurrentUser, loading, isAuthenticated, isInitialized, now>>
  /\ UNCHANGED roleVars

\* signOut() of the context up to its first await.
SignOut ==
  /\ task["fg"].pc = "idle"
  /\ MainMounted
  /\ loading' = TRUE
  /\ task' = [task EXCEPT !["fg"] = [FreeTask EXCEPT !.pc = "so_repo", !.kind = "signOut"]]
  /\ UNCHANGED <<authCurrentUser, user, error, isAuthenticated, isInitialized,
                 cache, timerUser, now>>
  /\ UNCHANGED roleVars

\* FirebaseAuthRepository.signOut: signOut(auth), then the Google sign-out;
\* either may throw.
RepositorySignOut ==
  /\ task["fg"].pc = "so_repo"
  /\ \E outcome \in {"ok", "firebase_failed", "google_failed"} :
       /\ authCurrentUser' = IF outcome = "firebase_failed" THEN authCurrentUser ELSE None
       /\ task' = [task EXCEPT !["fg"].pc = "so_finish", !["fg"].repoOk = (outcome = "ok")]
  /\ UNCHANGED <<user, loading, error, isAuthenticated, isInitialized, cache,
                 timerUser, now>>
  /\ UNCHANGED roleVars

\* signOut() of the context after the repository call: clear the state and
\* remove the cache, or set the error.
SignOutFinish ==
  /\ task["fg"].pc = "so_finish"
  /\ IF task["fg"].repoOk
     THEN /\ user' = null
          /\ isAuthenticated' = FALSE
          /\ \E removeOk \in BOOLEAN :
               /\ cache' = IF removeOk THEN null ELSE cache
               /\ error' = IF removeOk THEN None ELSE "unknown"
               /\ task' = [task EXCEPT !["fg"].pc = "idle", !["fg"].repoOk = removeOk]
     ELSE /\ error' = "unknown"
          /\ task' = [task EXCEPT !["fg"].pc = "idle"]
          /\ UNCHANGED <<user, isAuthenticated, cache>>
  /\ timerUser' = Effect(user', isAuthenticated')
  /\ loading' = FALSE
  /\ UNCHANGED <<authCurrentUser, isInitialized, now>>
  /\ UNCHANGED roleVars

(***************************************************************************)
(* Sign-in with e-mail and password                                        *)
(***************************************************************************)
\* The sign-in screens are mounted (see MainMounted).
LoginMounted == isInitialized /\ ~loading /\ ~(isAuthenticated /\ user # null)

\* signInWithEmail(data) of the context up to its first await.
SignInWithEmail ==
  /\ task["fg"].pc = "idle"
  /\ LoginMounted
  /\ loading' = TRUE
  /\ error' = None
  /\ task' = [task EXCEPT !["fg"] = [FreeTask EXCEPT !.pc = "si_fetch", !.kind = "signIn",
                                     !.g = [NoFetch EXCEPT !.pc = "si_auth"]]]
  /\ UNCHANGED <<authCurrentUser, user, isAuthenticated, isInitialized, cache,
                 timerUser, now>>
  /\ UNCHANGED roleVars

\* FirebaseAuthRepository.signInWithEmail: signInWithEmailAndPassword sets
\* auth.currentUser, or throws.
SignInWithEmailAndPassword ==
  /\ task["fg"].pc = "si_fetch" /\ task["fg"].g.pc = "si_auth"
  /\ \E uid \in SessionUids, authOk \in BOOLEAN :
       LET g == task["fg"].g IN
       IF authOk
       THEN /\ authCurrentUser' = uid
            /\ task' = [task EXCEPT !["fg"].g = [g EXCEPT !.pc = "si_user", !.uid = uid]]
       ELSE /\ task' = [task EXCEPT !["fg"].g = [g EXCEPT !.pc = "ret", !.failed = TRUE]]
            /\ UNCHANGED authCurrentUser
  /\ UNCHANGED <<user, loading, error, isAuthenticated, isInitialized, cache, timerUser, now>>
  /\ UNCHANGED roleVars

\* FirebaseAuthRepository.signInWithEmail: getUserFromFirestore, then the
\* throws on a missing profile and on a deactivated account; the Firebase
\* session stays.
SignInGetUser ==
  /\ task["fg"].pc = "si_fetch" /\ task["fg"].g.pc = "si_user"
  /\ \E readOk \in BOOLEAN :
       LET g == task["fg"].g IN
       IF readOk /\ exists(users, g.uid) /\ users[g.uid].isActive
       THEN task' = [task EXCEPT !["fg"].g = [g EXCEPT !.pc = "gc_role", !.isActive = TRUE]]
       ELSE task' = [task EXCEPT !["fg"].g = [g EXCEPT !.pc = "ret", !.failed = ~readOk]]
  /\ UNCHANGED <<authCurrentUser, user, loading, error, isAuthenticated,
                 isInitialized, cache, timerUser, now>>
  /\ UNCHANGED roleVars

\* signInWithEmail(data) of the context after the repository call: install
\* the user and write the cache, or the catch block.
SignInWithEmailFinish ==
  /\ task["fg"].pc = "si_fetch" /\ task["fg"].g.pc = "ret"
  /\ LET signedIn == task["fg"].g.result IN
     IF signedIn # null
     THEN /\ user' = signedIn
          /\ isAuthenticated' = TRUE
          /\ \E storageOk \in BOOLEAN :
               /\ cache' = IF storageOk THEN Fingerprint(signedIn) ELSE cache
               /\ error' = IF storageOk THEN error ELSE "unknown"
               /\ task' = [task EXCEPT !["fg"] = [FreeTask EXCEPT !.pc = "idle",
                                                  !.kind = "signIn", !.repoOk = storageOk]]
     ELSE /\ error' = "unknown"
          /\ task' = [task EXCEPT !["fg"] = [FreeTask EXCEPT !.pc = "idle", !.kind = "signIn"]]
          /\ UNCHANGED <<user, isAuthenticated, cache>>
  /\ timerUser' = Effect(user', isAuthenticated')
  /\ loading' = FALSE
  /\ UNCHANGED <<authCurrentUser, isInitialized, now>>
  /\ UNCHANGED roleVars

\* Time passes between two steps.
Tick ==
  /\ now < MaxClock
  /\ now' = now + 1
  /\ UNCHANGED <<authCurrentUser, user, loading, error, isAuthenticated,
                 isInitialized, cache, timerUser, task>>
  /\ UNCHANGED roleVars

\* A role transaction committed by another client rewrites the role and the
\* permissions of the document of a session account.
StoreRoleChange(u, newRole) ==
  /\ exists(users, u)
  /\ users[u].role # newRole
  /\ users' = [users EXCEPT ![u] = AssignedDoc(@, newRole)]
  /\ UNCHANGED <<requests, audit, rp, ncalls>>
  /\ UNCHANGED <<authAccounts, sessionVars>>

(***************************************************************************)
(* Authorization guard                                                     *)
(***************************************************************************)
hasRole(u, role) == IF u = null THEN FALSE ELSE u.role = role

hasPermission(u, permission) ==
  IF u = null THEN FALSE ELSE includes(u.permissions, permission)

\* permissions.some(...) after the test of the user
hasAnyPermission(u, permissions) ==
  IF u = null THEN FALSE
  ELSE \E i \in 1..Len(permissions) : includes(u.permissions, permissions[i])

\* permissions.every(...) after the test of the user
hasAllPermissions(u, permissions) ==
  IF u = null THEN FALSE
  ELSE \A i \in 1..Len(permissions) : includes(u.permissions, permissions[i])

(***************************************************************************)
(* Specifications                                                          *)
(***************************************************************************)
SessionQuiet ==
  /\ authCurrentUser = None
  /\ user = null
  /\ loading = TRUE
  /\ error = None
  /\ isAuthenticated = FALSE
  /\ isInitialized = FALSE
  /\ cache = null
  /\ timerUser = null
  /\ now = 0
  /\ task = [t \in TaskIds |-> IF t = "fg" THEN [FreeTask EXCEPT !.pc = "init"] ELSE FreeTask]

\* A fingerprint left in the secure store by an earlier run.
StaleCache ==
  [id |-> "ad", role |-> SUPER_ADMIN, permissions |-> getPermissionsForRole(SUPER_ADMIN),
   lastRefresh |-> 0]

SessionInit ==
  /\ authCurrentUser \in {None} \cup SessionUids
  /\ user = null
  /\ loading = TRUE
  /\ error = None
  /\ isAuthenticated = FALSE
  /\ isInitialized = FALSE
  /\ cache \in {null, StaleCache}
  /\ timerUser = null
  /\ now = 0
  /\ task = [t \in TaskIds |-> IF t = "fg" THEN [FreeTask EXCEPT !.pc = "init"] ELSE FreeTask]

\* The steps of the calls of the callers in C.
RoleCalls(C) ==
  \/ \E c \in C, u \in UserIds, r \in UserRole, by \in UserIds : AssignRoleCall(c, u, r, by)
  \/ \E c \in C : AsGet(c)
  \/ \E c \in C : AsRole(c)
  \/ \E c \in C : AsCommit(c)
  \/ \E c \in C, u \in UserIds, by \in UserIds : RemoveRoleCall(c, u, by)
  \/ \E c \in C : RmRole(c)
  \/ \E c \in C : RmCommit(c)
  \/ \E u \in UserIds, r \in UserRole : CreateRoleChangeRequest(u, r)
  \/ \E c \in C, q \in RequestIds, by \in UserIds : ApproveCall(c, q, by)
  \/ \E c \in C : ApRole(c)
  \/ \E c \in C : ApCommit(c)
  \/ \E c \in C, q \in RequestIds, by \in UserIds : RejectCall(c, q, by)
  \/ \E c \in C : RjUpdate(c)

\* Re-runs of a transaction after a conflicting commit of another caller.
RoleRetries(C) ==
  \/ \E c \in C : RmGet(c)
  \/ \E c \in C : ApGet(c)

RoleNext == RoleCalls({"c1"})

SessionNext ==
  \/ InitializeAuth
  \/ InitializeAuthFinish
  \/ \E t \in TaskIds : GetUserFromFirestore(t)
  \/ \E t \in TaskIds : ValidateUserRole(t)
  \/ \E t \in TaskIds : RefreshUserPermissions(t)
  \/ TimerTick
  \/ TimerFinish
  \/ RefreshUser
  \/ RefreshUserFinish
  \/ SignOut
  \/ RepositorySignOut
  \/ SignOutFinish

Next == RoleNext

Init == RoleInit /\ SessionQuiet

\* The role assignment workflow, with concurrent callers.
Spec == Init /\ [][Next]_vars

\* The same workflow with two callers whose calls overlap.
ConcNext == RoleCalls(Callers) \/ RoleRetries(Callers)

ConcSpec == Init /\ [][ConcNext]_vars

SessionStep ==
  \/ SessionNext
  \/ \E u \in SessionUids, r \in SessionRoles : StoreRoleChange(u, r)

\* The store as initialized and the provider about to mount.
SessionStart == RoleInit /\ SessionInit

\* The session manager of one device, over a store other clients write to.
SessionSpec == SessionStart /\ [][SessionStep]_vars

\* The steps of a sign-in with e-mail and password.
SignInNext ==
  \/ SignInWithEmail
  \/ SignInWithEmailAndPassword
  \/ SignInGetUser
  \/ SignInWithEmailFinish

\* The session manager with sign-in, over a store nobody else writes to.
SignInSpec == SessionStart /\ [][SessionNext \/ SignInNext]_vars

\* The same with a clock that advances, for the timestamps of 'user_cache'.
TimedSessionSpec ==
  SessionStart /\ [][SessionStep \/ Tick]_vars

\* Contents the 'user_cache' item may have been left with.
CacheContents == {null, StaleCache}

\* The secure store holds other contents under 'user_cache' than this run
\* wrote: nothing of the session manager reads the item, so the contents are
\* those of any other run.
OtherCacheContents(c) ==
  /\ cache # c
  /\ cache' = c
  /\ UNCHANGED <<authCurrentUser, user, loading, error, isAuthenticated,
                 isInitialized, timerUser, now, task>>
  /\ UNCHANGED roleVars

\* The session manager over a secure store of any contents.
CacheSpec ==
  SessionStart
    /\ [][SessionNext \/ \E c \in CacheContents : OtherCacheContents(c)]_vars

\* The profile of a session account is deactivated in the store.  The
\* repository declares deactivateAccount without implementing it; isActive
\* is read by signInWithEmail and written by whatever administers the store.
DeactivateAccount(u) ==
  /\ exists(users, u)
  /\ users[u].isActive
  /\ users' = [users EXCEPT ![u].isActive = FALSE]
  /\ UNCHANGED <<requests, audit, rp, ncalls>>
  /\ UNCHANGED <<authAccounts, sessionVars>>

\* The session manager over a store in which accounts are deactivated.
ActiveSpec ==
  SessionStart
    /\ [][SessionNext \/ \E u \in SessionUids : DeactivateAccount(u)]_vars

(***************************************************************************)
(* Super-admin bootstrap (FirebaseAuthRepository.initializeSuperAdmin)     *)
(***************************************************************************)
\* The account of SUPER_ADMIN_CREDENTIALS: one fixed e-mail address, hence
\* one Firebase Auth account and one users/<uid> document.
BootstrapUid == "sa"

\* Some stored profile holds the SUPER_ADMIN role.
SuperAdminExists ==
  \E u \in UserIds : exists(users, u) /\ users[u].role = SUPER_ADMIN

\* checkSuperAdminExists: the query for a SUPER_ADMIN profile; false when
\* the query throws.
checkSuperAdminExists(queryOk) == queryOk /\ SuperAdminExists

\* initializeSuperAdmin up to the result of checkSuperAdminExists: the call
\* throws 'Super admin already exists' or goes on to create the account.
InitializeSuperAdminCall(c) ==
  /\ CanCall(c)
  /\ \E queryOk \in BOOLEAN :
       LET started == [rp EXCEPT ![c] =
                         [IdleCall EXCEPT !.op = "initializeSuperAdmin",
                                          !.userId = BootstrapUid,
                                          !.elevatedAtCall = SuperAdminExists]]
       IN rp' = IF checkSuperAdminExists(queryOk)
                THEN Return(started, c, "AlreadyExists")
                ELSE [started EXCEPT ![c].pc = "bs_create"]
  /\ ncalls' = ncalls + 1
  /\ UNCHANGED <<users, requests, audit>>
  /\ UNCHANGED <<authAccounts, sessionVars>>

\* The same without the uniqueness of e-mail addresses in Firebase Auth.
CreateUserWithEmailAndPassword_AnyEmail(c) ==
  /\ rp[c].pc = "bs_create"
  /\ \E authOk \in BOOLEAN :
       IF authOk
       THEN /\ authAccounts' = authAccounts \cup {BootstrapUid}
            /\ rp' = [rp EXCEPT ![c].pc = "bs_save"]
       ELSE /\ rp' = Return(rp, c, "AuthError")
            /\ UNCHANGED authAccounts
  /\ UNCHANGED <<users, requests, audit, ncalls>>
  /\ UNCHANGED sessionVars

\* createUserWithEmailAndPassword with the hardcoded e-mail address:
\* Firebase Auth rejects an address that is registered already
\* ('auth/email-already-in-use'); the call may also fail otherwise.  The
\* session of the calling device is not the one modelled by sessionVars.
CreateUserWithEmailAndPassword(c) ==
  /\ rp[c].pc = "bs_create"
  /\ \E authOk \in BOOLEAN :
       IF authOk /\ BootstrapUid \notin authAccounts
       THEN /\ authAccounts' = authAccounts \cup {BootstrapUid}
            /\ rp' = [rp EXCEPT ![c].pc = "bs_save"]
       ELSE /\ rp' = Return(rp, c, "AuthError")
            /\ UNCHANGED authAccounts
  /\ UNCHANGED <<users, requests, audit, ncalls>>
  /\ UNCHANGED sessionVars

\* firebaseUpdateProfile, createUser(..., SUPER_ADMIN) and
\* saveUserToFirestore: the profile is written with setDoc, or the call
\* throws and leaves the Firebase Auth account without a profile.
SaveUserToFirestore(c) ==
  /\ rp[c].pc = "bs_save"
  /\ \E saveOk \in BOOLEAN :
       IF saveOk
       THEN /\ users' = [users EXCEPT ![BootstrapUid] = UserDoc(SUPER_ADMIN)]
            /\ rp' = Return(MarkUserWritten(
                              [rp EXCEPT ![c].wrote = @ + 1], c, BootstrapUid),
                            c, "ok")
       ELSE /\ rp' = Return(rp, c, "StoreError")
            /\ UNCHANGED users
  /\ UNCHANGED <<requests, audit, ncalls>>
  /\ UNCHANGED <<authAccounts, sessionVars>>

\* A role transaction committed by another client: assignRole and removeRole
\* write a role only when validateRoleAssignment accepts the role of the
\* acting account for it.
BootRoleChange(u, newRole) ==
  /\ \E a \in UserIds :
        exists(users, a) /\ validateRoleAssignment(users[a].role, newRole)
  /\ StoreRoleChange(u, newRole)

\* A fresh installation: ordinary accounts only, no bootstrap account yet.
BootInit ==
  /\ users = [u \in UserIds |->
                 CASE u = BootstrapUid -> NoDoc
                   [] u = "ad" -> UserDoc(ADMIN)
                   [] OTHER -> UserDoc(USER)]
  /\ requests = [r \in RequestIds |-> NoDoc]
  /\ audit = << >>
  /\ rp = [c \in Callers |-> IdleCall]
  /\ ncalls = 0
  /\ authAccounts = UserIds \ {BootstrapUid}
  /\ SessionQuiet

BootNext ==
  \/ \E c \in Callers : InitializeSuperAdminCall(c)
  \/ \E c \in Callers : CreateUserWithEmailAndPassword(c)
  \/ \E c \in Callers : SaveUserToFirestore(c)
  \/ \E u \in UserIds, r \in UserRole : BootRoleChange(u, r)

\* Bootstrap calls of several devices over a store whose roles other
\* clients change.
BootstrapSpec == BootInit /\ [][BootNext]_vars

(***************************************************************************)
(* Profile creation: signUpWithEmail and signInWithGoogle                  *)
(***************************************************************************)
\* signUpWithEmail up to createUserWithEmailAndPassword: the checks of the
\* terms, of the e-mail address and of the password throw or pass.  uid is
\* the account the e-mail address stands for.
SignUpWithEmailCall(c, uid) ==
  /\ CanCall(c)
  /\ \E valid \in BOOLEAN :
       LET started == [rp EXCEPT ![c] = [IdleCall EXCEPT !.op = "signUp",
                                                         !.userId = uid]]
       IN rp' = IF valid
                THEN [started EXCEPT ![c].pc = "su_create"]
                ELSE Return(started, c, "ValidationError")
  /\ ncalls' = ncalls + 1
  /\ UNCHANGED <<users, requests, audit>>
  /\ UNCHANGED <<authAccounts, sessionVars>>

\* signUpWithEmail: createUserWithEmailAndPassword registers the address, or
\* throws (the address is registered already, or another error).
SignUpCreateAccount(c) ==
  /\ rp[c].pc = "su_create"
  /\ \E authOk \in BOOLEAN :
       IF authOk /\ rp[c].userId \notin authAccounts
       THEN /\ authAccounts' = authAccounts \cup {rp[c].userId}
            /\ rp' = [rp EXCEPT ![c].pc = "su_save"]
       ELSE /\ rp' = Return(rp, c, "AuthError")
            /\ UNCHANGED authAccounts
  /\ UNCHANGED <<users, requests, audit, ncalls>>
  /\ UNCHANGED sessionVars

\* The same with the role of an admin.
SignUpSaveUser_AsAdmin(c) ==
  /\ rp[c].pc = "su_save"
  /\ \E saveOk \in BOOLEAN :
       IF saveOk
       THEN /\ users' = [users EXCEPT ![rp[c].userId] = UserDoc(ADMIN)]
            /\ rp' = Return(MarkUserWritten(
                              [rp EXCEPT ![c].wrote = @ + 1], c, rp[c].userId),
                            c, "ok")
       ELSE /\ rp' = Return(rp, c, "StoreError")
            /\ UNCHANGED users
  /\ UNCHANGED <<requests, audit, ncalls>>
  /\ UNCHANGED <<authAccounts, sessionVars>>

\* signUpWithEmail after the account exists: firebaseUpdateProfile,
\* sendEmailVerification, createUser(..., UserRole.USER) and
\* saveUserToFirestore; any of the calls may throw, which leaves the account
\* without a profile.
SignUpSaveUser(c) ==
  /\ rp[c].pc = "su_save"
  /\ \E saveOk \in BOOLEAN :
       IF saveOk
       THEN /\ users' = [users EXCEPT ![rp[c].userId] = UserDoc(USER)]
            /\ rp' = Return(MarkUserWritten(
                              [rp EXCEPT ![c].wrote = @ + 1], c, rp[c].userId),
                            c, "ok")
       ELSE /\ rp' = Return(rp, c, "StoreError")
            /\ UNCHANGED users
  /\ UNCHANGED <<requests, audit, ncalls>>
  /\ UNCHANGED <<authAccounts, sessionVars>>

\* signInWithGoogle up to getUserFromFirestore: signInWithPopup or
\* signInWithCredential registers the Google account on its first use, or
\* throws.
SignInWithGoogleCall(c, uid) ==
  /\ CanCall(c)
  /\ \E authOk \in BOOLEAN :
       LET started == [rp EXCEPT ![c] = [IdleCall EXCEPT !.op = "signInWithGoogle",
                                                         !.userId = uid]]
       IN /\ rp' = IF authOk
                   THEN [started EXCEPT ![c].pc = "gs_user"]
                   ELSE Return(started, c, "GoogleError")
          /\ authAccounts' = IF authOk THEN authAccounts \cup {uid} ELSE authAccounts
  /\ ncalls' = ncalls + 1
  /\ UNCHANGED <<users, requests, audit>>
  /\ UNCHANGED sessionVars

\* signInWithGoogle: getUserFromFirestore, null when the profile is missing
\* or the read throws.  With a profile the provider list and the last login
\* are updated (fields that are not modelled), the role and the permissions
\* are read, and the call returns or throws.
GoogleGetUser(c) ==
  /\ rp[c].pc = "gs_user"
  /\ \E readOk \in BOOLEAN, updateOk \in BOOLEAN :
       rp' = IF readOk /\ exists(users, rp[c].userId)
             THEN Return(rp, c, IF updateOk THEN "ok" ELSE "GoogleError")
             ELSE [rp EXCEPT ![c].pc = "gs_save"]
  /\ UNCHANGED <<users, requests, audit, ncalls>>
  /\ UNCHANGED <<authAccounts, sessionVars>>

\* signInWithGoogle without a profile: createUser(..., UserRole.USER) and
\* saveUserToFirestore, which replaces whatever the document holds; then the
\* sign-up event is logged, the role and the permissions are read (none of
\* which throws), and the call returns.
GoogleSaveNewUser(c) ==
  /\ rp[c].pc = "gs_save"
  /\ \E saveOk \in BOOLEAN :
       IF saveOk
       THEN /\ users' = [users EXCEPT ![rp[c].userId] = UserDoc(USER)]
            /\ rp' = Return(MarkUserWritten(
                              [rp EXCEPT ![c].wrote = @ + 1], c, rp[c].userId),
                            c, "ok")
       ELSE /\ rp' = Return(rp, c, "GoogleError")
            /\ UNCHANGED users
  /\ UNCHANGED <<requests, audit, ncalls>>
  /\ UNCHANGED <<authAccounts, sessionVars>>

\* A fresh installation with one registered user.
ProfileInit ==
  /\ users = [u \in UserIds |-> IF u = "ad" THEN UserDoc(USER) ELSE NoDoc]
  /\ requests = [r \in RequestIds |-> NoDoc]
  /\ audit = << >>
  /\ rp = [c \in Callers |-> IdleCall]
  /\ ncalls = 0
  /\ authAccounts = {"ad"}
  /\ SessionQuiet

ProfileNext ==
  \/ \E c \in Callers, uid \in UserIds : SignUpWithEmailCall(c, uid)
  \/ \E c \in Callers : SignUpCreateAccount(c)
  \/ \E c \in Callers : SignUpSaveUser(c)
  \/ \E c \in Callers, uid \in UserIds : SignInWithGoogleCall(c, uid)
  \/ \E c \in Callers : GoogleGetUser(c)
  \/ \E c \in Callers : GoogleSaveNewUser(c)
  \/ \E c \in Callers : InitializeSuperAdminCall(c)
  \/ \E c \in Callers : CreateUserWithEmailAndPassword(c)
  \/ \E c \in Callers : SaveUserToFirestore(c)
  \/ \E u \in UserIds, r \in UserRole : BootRoleChange(u, r)

\* Sign-ups, Google sign-ins and bootstrap calls of several devices.
ProfileSpec == ProfileInit /\ [][ProfileNext]_vars

(***************************************************************************)
(* Properties of the role assignment workflow                              *)
(***************************************************************************)
\* The call of caller c has passed a validateRoleAssignment check.
PassedValidation(c) ==
  \/ rp[c].pc = "as_commit"
  \/ rp[c].op = "approve" /\ rp[c].pc \in {"as_get", "as_role", "as_commit", "ap_commit"}

\* C1: no assignRole or approve call whose new / requested role is
\* super_admin passes the assignment-validity check, whatever the role of the
\* acting user.
C1_ElevatedNeverPassesValidation ==
  \A c \in Callers : PassedValidation(c) => rp[c].newRole # SUPER_ADMIN

\* The (assigner role, new role) pairs the assignment matrix denies.
DeniedPair(assignerRole, newRole) ==
  \/ assignerRole = USER
  \/ assignerRole = ADMIN /\ newRole \in {ADMIN, SUPER_ADMIN}

\* C2: an assignRole call whose (stored assigner role, new role) pair is
\* denied by the assignment matrix - in particular an admin assigning admin -
\* fails with the permission-denied error and writes nothing: the users
\* collection and the audit log are as before the call.
C2_DeniedAssignRoleWritesNothing ==
  [][\A c \in Callers :
       (/\ rp[c].op = "assignRole" /\ rp[c].pc = "as_role" /\ rp'[c].pc # "as_role"
        /\ DeniedPair(users[rp[c].by].role, rp[c].newRole))
       => /\ rp'[c].pc = "done"
          /\ rp'[c].result = "PermissionDenied"
          /\ rp'[c].wrote = 0
          /\ users' = users
          /\ audit' = audit]_vars

\* An admin's assignRole(target, admin) has been refused and nothing was
\* written.
C2_Witness ==
  \E c \in Callers :
    /\ rp[c].op = "assignRole" /\ rp[c].pc = "done"
    /\ rp[c].assignerRole = ADMIN /\ rp[c].newRole = ADMIN
    /\ users[rp[c].by].role = ADMIN
    /\ rp[c].result = "PermissionDenied"
    /\ rp[c].wrote = 0 /\ audit = << >>

\* C3: a request whose status is approved or rejected is final: no later
\* step changes its status or its approved / approvedBy / rejectedBy fields.
C3_TerminalRequestIsFinal ==
  [][\A q \in RequestIds :
       (exists(requests, q) /\ requests[q].status \in {"approved", "rejected"})
       => requests'[q] = requests[q]]_vars

\* C4: an approveRoleChangeRequest call on a request that has been rejected
\* does not get past the already-processed check: it has returned, with the
\* already-processed error (or a failed read of the request), and it has
\* written no role.
C4_ApproveAfterRejectFails ==
  \A c \in Callers :
    (/\ rp[c].op = "approve"
     /\ exists(requests, rp[c].requestId)
     /\ requests[rp[c].requestId].rejectedBy # None)
    => /\ rp[c].pc = "done"
       /\ rp[c].result \in {"AlreadyProcessed", "TxFailed"}
       /\ rp[c].wrote = 0

\* C10: the stored role of a super admin is lowered only by the commit of an
\* assignRole whose acting user is a super admin.
C10_OnlyElevatedLowersElevated ==
  [][\A u \in UserIds :
       (users[u].role = SUPER_ADMIN /\ users'[u].role # SUPER_ADMIN)
       => \E c \in Callers :
            /\ rp[c].pc = "as_commit" /\ rp[c].userId = u
            /\ users[rp[c].by].role = SUPER_ADMIN]_vars

\* C11: an approval that has returned succeeded if and only if it wrote the
\* role, and it wrote the role (and the role_assigned entry) exactly once: a
\* returned approval that failed has written nothing, and one that succeeded
\* has left the request approved with one role write.
C11_ApprovalIsAtomic ==
  \A c \in Callers :
    (rp[c].op = "approve" /\ rp[c].pc = "done")
    => /\ rp[c].result = "ok"
          => (rp[c].wrote = 1 /\ requests[rp[c].requestId].status = "approved")
       /\ rp[c].result # "ok" => rp[c].wrote = 0

\* C12: a pending request is changed only by the approve or reject call of an
\* actor whose role passes the assignment-validity check against the
\* requested role.
C12_RequestTransitionedByValidActor ==
  [][\A q \in RequestIds :
       (exists(requests, q) /\ requests[q].status = "pending"
          /\ requests'[q] # requests[q])
       => \E c \in Callers :
            /\ rp[c].requestId = q
            /\ rp[c].pc \in {"ap_commit", "rj_update"} /\ rp'[c].pc = "done"
            /\ validateRoleAssignment(
                 IF rp[c].op = "approve" THEN rp[c].assignerRole
                                         ELSE users[rp[c].by].role,
                 requests[q].requestedRole)]_vars

\* The audit entry of an assignment or a removal.
AuditEntry(action, performedBy, targetUserId, previousRole, newRole) ==
  [action |-> action, performedBy |-> performedBy, targetUserId |-> targetUserId,
   previousRole |-> previousRole, newRole |-> newRole]

\* The users collection with the role and the permission set of t replaced.
WithRole(t, role) ==
  [users EXCEPT ![t] = [@ EXCEPT !.role = role,
                                 !.permissions = getPermissionsForRole(role)]]

\* C13: the commit step of an assignRole call either succeeds, and then the
\* target holds newRole with the permissions of newRole and the audit log has
\* gained exactly the entry {previous role of the target, newRole}, or it
\* changes neither the users collection nor the audit log.
C13_AssignRoleWritesRoleAndAudit ==
  [][\A c \in Callers :
       (rp[c].op = "assignRole" /\ rp[c].pc = "as_commit" /\ rp'[c].pc # "as_commit")
       => LET t == rp[c].userId IN
          IF rp'[c].pc = "done" /\ rp'[c].result = "ok"
          THEN /\ users' = WithRole(t, rp[c].newRole)
               /\ audit' = Append(audit, AuditEntry("role_assigned", rp[c].by, t,
                                                    users[t].role, rp[c].newRole))
               /\ rp'[c].wrote = 1
          ELSE users' = users /\ audit' = audit /\ rp'[c].wrote = 0]_vars

\* A super admin has granted admin to a standard user: the entry is
\* {previousRole: user, newRole: admin} and a read of the store gives a
\* Principal for which hasRole(admin) is true.
C13_Witness ==
  /\ \E c \in Callers :
       /\ rp[c].op = "assignRole" /\ rp[c].pc = "done" /\ rp[c].result = "ok"
       /\ rp[c].userId = "us" /\ rp[c].by = "sa"
  /\ audit = << AuditEntry("role_assigned", "sa", "us", USER, ADMIN) >>
  /\ users["us"].permissions = getPermissionsForRole(ADMIN)
  /\ hasRole(Principal("us", validateUserRole("us", TRUE),
                       getPermissionsForRole(validateUserRole("us", TRUE)), TRUE),
             ADMIN)

\* C14: a removeRole call that has read a super admin target returns with an
\* error, and no removeRole call succeeds on a target whose stored role is
\* super admin, so nothing changes; a removeRole call that
\* succeeds sets the target to user with the permissions of user and appends
\* exactly the entry {previous role, user}; a call that fails writes nothing.
C14_RemoveRoleGuardsSuperAdmin ==
  [][\A c \in Callers :
       (rp[c].op = "removeRole" /\ rp[c].pc \in {"rm_get", "rm_role", "rm_commit"}
          /\ rp'[c].pc # rp[c].pc)
       => LET t == rp[c].userId IN
          /\ (rp[c].pc = "rm_role" /\ rp[c].currentRole = SUPER_ADMIN)
             => (rp'[c].pc = "done" /\ rp'[c].result # "ok")
          /\ IF rp'[c].pc = "done" /\ rp'[c].result = "ok"
             THEN /\ users[t].role # SUPER_ADMIN
                  /\ users' = WithRole(t, USER)
                  /\ audit' = Append(audit, AuditEntry("role_removed", rp[c].by, t,
                                                       users[t].role, USER))
             ELSE users' = users /\ audit' = audit /\ rp'[c].wrote = 0]_vars

\* A super admin's removeRole on a super admin has been refused and nothing
\* was written.
C14_Witness ==
  \E c \in Callers :
    /\ rp[c].op = "removeRole" /\ rp[c].pc = "done"
    /\ rp[c].assignerRole = SUPER_ADMIN /\ users[rp[c].userId].role = SUPER_ADMIN
    /\ rp[c].result = "CannotRemoveSuperAdmin"
    /\ rp[c].wrote = 0 /\ audit = << >>

\* C15: every request that is approved or rejected has an audit entry that
\* names the acting user and the target user of the request.
C15_ProcessedRequestIsAudited ==
  \A q \in RequestIds :
    (exists(requests, q) /\ requests[q].status \in {"approved", "rejected"})
    => \E i \in 1..Len(audit) :
         /\ audit[i].targetUserId = requests[q].userId
         /\ audit[i].performedBy = (IF requests[q].status = "approved"
                                    THEN requests[q].approvedBy
                                    ELSE requests[q].rejectedBy)

(***************************************************************************)
(* Properties of the session manager                                       *)
(***************************************************************************)
Revalidations == {"timer", "manual"}

\* The getCurrentUser call of task t has not returned yet.
FetchInFlight(t) ==
  task[t].pc = "fetch" /\ task[t].g.pc \in {"gc_user", "gc_role", "gc_perms"}

\* Task t runs the continuation of its getCurrentUser call in this step.
Finishes(t) == task[t].pc = "fetch" /\ task[t].g.pc = "ret" /\ task'[t].pc = "free"

\* The last foreground operation was a signOut() that resolved.
SignedOut ==
  task["fg"].kind = "signOut" /\ task["fg"].pc = "idle" /\ task["fg"].repoOk

\* C5: once signOut() has resolved, no revalidation that was in flight brings
\* the Principal or the 'user_cache' item back.
C5_SignOutNotUndoneByRevalidation ==
  SignedOut => user = null /\ cache = null

\* C6: a revalidation one of whose user-store reads failed changes no answer
\* of hasRole or hasPermission.
C6_FailedRevalidationKeepsAnswers ==
  [][\A t \in Revalidations :
       (Finishes(t) /\ task[t].g.failed)
       => /\ \A p \in Permission : hasPermission(user', p) = hasPermission(user, p)
          /\ \A r \in UserRole : hasRole(user', r) = hasRole(user, r)]_vars

\* C7: a revalidation whose fetch from the user store fails neither signs out
\* of Firebase nor changes isAuthenticated or the Principal.
C7_FailedRevalidationKeepsSession ==
  [][\A t \in Revalidations :
       /\ (/\ task[t].pc = "fetch" /\ task[t].g.pc = "gc_user"
           /\ task'[t].g.pc = "ret" /\ task'[t].g.failed)
          => authCurrentUser' = authCurrentUser
       /\ (Finishes(t) /\ task[t].g.failed /\ task[t].g.result = null)
          => (isAuthenticated' = isAuthenticated /\ user' = user)]_vars

\* C8: when a read of the user store fails during initializeAuth, the
\* initialization ends with the error set and isInitialized false.
C8_FailedInitializationIsAnError ==
  [][(/\ task["fg"].pc = "init_fetch" /\ task["fg"].g.pc = "ret"
      /\ task["fg"].g.failed /\ task'["fg"].pc = "idle")
     => (error' # None /\ ~isInitialized')]_vars

\* C9: at most one revalidation fetch is in flight.
C9_OneRevalidationInFlight ==
  Cardinality({t \in Revalidations : FetchInFlight(t)}) <= 1

\* C16: when signOut() returns, resolved or rejected, the Principal is null
\* and 'user_cache' is absent.
C16_SignOutAlwaysClears ==
  [][(task["fg"].pc = "so_finish" /\ task'["fg"].pc = "idle")
     => (user' = null /\ cache' = null)]_vars

\* C17: the interval is armed exactly when isAuthenticated is true and a
\* Principal is held, and an interval callback starts only in such a state.
C17_TimerArmedIffAuthenticated ==
  /\ [](timerUser # null <=> (isAuthenticated /\ user # null))
  /\ [][(task["timer"].pc = "free" /\ task'["timer"].pc = "fetch")
        => (isAuthenticated /\ user # null)]_vars

\* A sign-out has resolved while a Firebase session is gone and the interval
\* is no longer armed, although a Principal is held again.
C17_Witness ==
  SignedOut /\ ~isAuthenticated /\ user # null /\ timerUser = null

\* Task t is about to run its continuation with a fetched user whose role and
\* permissions equal those of the held Principal.
FetchedEqual(t) ==
  /\ task[t].pc = "fetch" /\ task[t].g.pc = "ret"
  /\ task[t].g.result # null /\ user # null
  /\ task[t].g.result.role = user.role
  /\ task[t].g.result.permissions = user.permissions

C19_FailedSignInInstallsNothing ==
  [][(/\ task["fg"].pc = "si_fetch" /\ task["fg"].g.pc = "ret"
      /\ task'["fg"].pc = "idle")
     => /\ task["fg"].g.failed => ~task'["fg"].repoOk
        /\ ~task'["fg"].repoOk
           => (user' = user /\ isAuthenticated' = isAuthenticated /\ cache' = cache)]_vars

(***************************************************************************)
(* Properties of the super-admin bootstrap                                 *)
(***************************************************************************)
\* The call of caller c is an initializeSuperAdmin call that returns in
\* this step.
BootstrapReturns(c) ==
  /\ rp[c].pc # "done"
  /\ rp'[c].pc = "done"
  /\ rp'[c].op = "initializeSuperAdmin"

\* C20: the Elevated role is established at most once by the bootstrap
\* operation.  Whatever the interleaving of initializeSuperAdmin calls and
\* whatever the outcome of the existence query, a call that succeeds was
\* made while no Elevated account existed, finds no Elevated account and no
\* bootstrap profile when it writes, and writes exactly the bootstrap
\* profile (profiles are never deleted, so this happens at most once);
\* every other call, hence every call made while an Elevated account
\* exists, fails and leaves the profiles as they are.
C20_BootstrapEstablishesElevatedOnce ==
  [][\A c \in Callers :
       BootstrapReturns(c) =>
         IF rp'[c].result = "ok"
         THEN /\ ~rp'[c].elevatedAtCall
              /\ ~SuperAdminExists
              /\ ~exists(users, BootstrapUid)
              /\ users' = [users EXCEPT ![BootstrapUid] = UserDoc(SUPER_ADMIN)]
              /\ \A d \in Callers \ {c} :
                    ~(rp[d].op = "initializeSuperAdmin" /\ rp[d].result = "ok")
         ELSE /\ users' = users
              /\ rp'[c].wrote = 0]_vars

\* A call made while an Elevated account existed got past a failed existence
\* query and was stopped by Firebase Auth.
C20_Witness ==
  \E c \in Callers :
    /\ rp[c].op = "initializeSuperAdmin"
    /\ rp[c].pc = "done"
    /\ rp[c].elevatedAtCall
    /\ rp[c].result = "AuthError"
    /\ SuperAdminExists

\* The Principal the context value exposes is replaced in this step by one
\* whose role has a strictly lower hierarchy level.
DemotedBy(t) ==
  /\ Finishes(t)
  /\ user # null /\ user' # null
  /\ getRoleLevel(user'.role) < getRoleLevel(user.role)

\* C21: a revalidation that replaces the Principal by one of a strictly
\* lower hierarchy level shows more to the callers of the session manager
\* than the new Principal: some other field of the context value (loading,
\* error, isAuthenticated, isInitialized) changes with it, which an ordinary
\* role or permission update does not do.
C21_DemotionIsExposed ==
  [][\A t \in Revalidations :
       DemotedBy(t) =>
         <<loading', error', isAuthenticated', isInitialized'>>
           # <<loading, error, isAuthenticated, isInitialized>>]_vars

\* The role assignment workflow has changed the stored role of the session
\* account: RoleInit stores the admin role for it.
StoredRoleChanged(u) == exists(users, u) /\ users[u].role # ADMIN

\* Task t is about to run its continuation, for the account of the held
\* Principal of an authenticated session, with a user all of whose reads
\* succeeded and whose role is the one the store holds now.
FetchedStored(t) ==
  /\ task[t].pc = "fetch" /\ task[t].g.pc = "ret"
  /\ isAuthenticated /\ user # null
  /\ task[t].g.result # null /\ ~task[t].g.failed
  /\ task[t].g.result.id = user.id
  /\ exists(users, user.id)
  /\ task[t].g.result.role = users[user.id].role
  /\ task[t].g.result.permissions = users[user.id].permissions

\* C22: once the stored role of the account of an authenticated session has
\* been changed to a role the held Principal does not have, a revalidation
\* that completes with the role the store holds now leaves a Principal for
\* which hasRole(stored role) is true and whose permission answers are those
\* of the stored role.
C22_RevalidationPicksUpStoredRole ==
  [][\A t \in Revalidations :
       (/\ FetchedStored(t) /\ Finishes(t)
        /\ StoredRoleChanged(user.id) /\ user.role # users[user.id].role)
       => /\ hasRole(user', users[user.id].role)
          /\ \A p \in Permission :
               hasPermission(user', p)
                 = includes(getPermissionsForRole(users[user.id].role), p)]_vars

SessionOperations ==
  {"InitializeAuth", "InitializeAuthFinish", "GetUserFromFirestore",
   "ValidateUserRole", "RefreshUserPermissions", "TimerTick", "TimerFinish",
   "RefreshUser", "RefreshUserFinish", "SignOut", "RepositorySignOut",
   "SignOutFinish"}

\* A step of the operation named k.
Operation(k) ==
  \/ k = "InitializeAuth" /\ InitializeAuth
  \/ k = "InitializeAuthFinish" /\ InitializeAuthFinish
  \/ k = "GetUserFromFirestore" /\ \E t \in TaskIds : GetUserFromFirestore(t)
  \/ k = "ValidateUserRole" /\ \E t \in TaskIds : ValidateUserRole(t)
  \/ k = "RefreshUserPermissions" /\ \E t \in TaskIds : RefreshUserPermissions(t)
  \/ k = "TimerTick" /\ TimerTick
  \/ k = "TimerFinish" /\ TimerFinish
  \/ k = "RefreshUser" /\ RefreshUser
  \/ k = "RefreshUserFinish" /\ RefreshUserFinish
  \/ k = "SignOut" /\ SignOut
  \/ k = "RepositorySignOut" /\ RepositorySignOut
  \/ k = "SignOutFinish" /\ SignOutFinish

\* The user objects a step can take its results from: those held by the
\* context and by the tasks, those a fetch is about to build, and those the
\* contents of 'user_cache' describe.
Candidates ==
  {null, user}
    \cup {task[t].g.result : t \in TaskIds}
    \cup {task[t].closure : t \in TaskIds}
    \cup {Principal(task[t].g.uid, task[t].g.role, getPermissionsForRole(r),
                    task[t].g.isActive) :
            t \in {x \in TaskIds : task[x].g.pc = "gc_perms"}, r \in UserRole}
    \cup {Principal(c.id, c.role, c.permissions, TRUE) :
            c \in {cache} \ {null}}

\* Operation k can leave the Principal u, on which alone hasRole,
\* hasPermission, hasAnyPermission and hasAllPermissions depend.
CanLeavePrincipal(k, u) == ENABLED (Operation(k) /\ user' = u)

\* Operation k can leave isAuthenticated = a.
CanLeaveAuthenticated(k, a) == ENABLED (Operation(k) /\ isAuthenticated' = a)

\* Operation k can leave task t with the fetched user u.
CanLeaveFetch(k, t, u) == ENABLED (Operation(k) /\ task'[t].g.result = u)

\* Operation k can leave task t with the closure u.
CanLeaveClosure(k, t, u) == ENABLED (Operation(k) /\ task'[t].closure = u)

\* C23: the contents of 'user_cache' never influence an authorization
\* answer.  A state of the session manager and the state that differs from
\* it by an empty 'user_cache' only hold the same Principal, enable the same
\* operations, and every operation leads from both to the same Principals
\* and to the same fetched users, so that two runs of the same operations
\* with the same responses that start with different contents hold the same
\* Principal, and give the same answers, in every state.
C23_CacheNeverInfluencesAnswers ==
  [][OtherCacheContents(null)
     => /\ user' = user
        /\ \A k \in SessionOperations :
             /\ (ENABLED Operation(k)) = (ENABLED Operation(k))'
             /\ (ENABLED Operation(k)) =>
                  /\ \A u \in Candidates :
                       CanLeavePrincipal(k, u) = CanLeavePrincipal(k, u)'
                  /\ \A a \in BOOLEAN :
                       CanLeaveAuthenticated(k, a) = CanLeaveAuthenticated(k, a)'
                  /\ \A t \in TaskIds, u \in Candidates :
                       /\ CanLeaveFetch(k, t, u) = CanLeaveFetch(k, t, u)'
                       /\ CanLeaveClosure(k, t, u) = CanLeaveClosure(k, t, u)']_vars

\* A Principal is held and the main screens are mounted while 'user_cache'
\* holds the fingerprint of a super admin, which the Principal is not.
C23_Witness ==
  /\ MainMounted
  /\ cache = StaleCache
  /\ ~hasRole(user, StaleCache.role)
  /\ hasAllPermissions(user, << >>)
  /\ ~hasAnyPermission(user, <<"assign_admin_role", "manage_roles">>)

(***************************************************************************)
(* Properties of profile creation                                          *)
(***************************************************************************)
\* The call of caller c writes a profile with saveUserToFirestore in this
\* step.
SavesProfile(c) ==
  /\ rp[c].pc \in {"su_save", "gs_save", "bs_save"}
  /\ rp'[c].pc = "done"
  /\ rp'[c].wrote = rp[c].wrote + 1

\* C24: every profile a signUpWithEmail or a signInWithGoogle call writes
\* has the user role and the permissions of the user role, and a profile
\* that comes into being with a higher role is written by
\* initializeSuperAdmin.
C24_NewProfilesAreStandard ==
  [][/\ \A c \in Callers :
          (SavesProfile(c) /\ rp[c].op \in {"signUp", "signInWithGoogle"})
          => /\ users'[rp[c].userId].role = USER
             /\ users'[rp[c].userId].permissions = getPermissionsForRole(USER)
             /\ \A u \in UserIds \ {rp[c].userId} : users'[u] = users[u]
     /\ \A u \in UserIds :
          (~exists(users, u) /\ exists(users', u) /\ users'[u].role # USER)
          => \E c \in Callers :
               SavesProfile(c) /\ rp[c].op = "initializeSuperAdmin"]_vars

\* A sign-up and a first Google sign-in have created a profile each, and the
\* bootstrap account holds the only higher role.
C24_Witness ==
  /\ \E c \in Callers :
       rp[c].op \in {"signUp", "signInWithGoogle"} /\ rp[c].pc = "done" /\ rp[c].wrote = 1
  /\ exists(users, "us") /\ users["us"] = UserDoc(USER)

(***************************************************************************)
(* Properties of the assignment matrix                                     *)
(***************************************************************************)
\* The validation step of caller c, run in this step, lets the call pass.
ValidationPasses(c) == rp'[c].pc = "as_commit"

\* The validation step of caller c, run in this step, refuses the call.
ValidationDenies(c) ==
  rp'[c].pc = "done" /\ rp'[c].result = "PermissionDenied"

\* C25: the assignment-validity check allows a super admin to assign admin,
\* refuses an admin who assigns admin, allows an admin to assign user, and
\* refuses a user whatever the role assigned; canPromoteUser gives the same
\* four answers.
C25_AssignmentMatrix ==
  [][\A c \in Callers :
       (rp[c].pc = "as_role" /\ rp'[c].pc # "as_role")
       => LET actor == rp'[c].assignerRole
              target == rp[c].newRole
              allowed == \/ actor = SUPER_ADMIN /\ target = ADMIN
                         \/ actor = ADMIN /\ target = USER
              denied == \/ actor = ADMIN /\ target = ADMIN
                        \/ actor = USER
          IN /\ allowed => (ValidationPasses(c) /\ canPromoteUser([role |-> actor], target))
             /\ denied => (ValidationDenies(c) /\ ~canPromoteUser([role |-> actor], target))]_vars

\* The second call of a run is one of an admin that assigns user, and it has
\* passed the check.
C25_Witness ==
  \E c \in Callers :
    /\ rp[c].op = "assignRole" /\ rp[c].pc = "as_commit"
    /\ rp[c].assignerRole = ADMIN /\ rp[c].newRole = USER
    /\ ncalls = 2

(***************************************************************************)
(* Properties of the authorization guard                                   *)
(***************************************************************************)
\* The permission lists the guard is asked about: the empty list, one
\* permission, two permissions.
PermissionLists ==
  {<< >>} \cup {<<p>> : p \in Permission}
          \cup {<<p, q>> : p \in Permission, q \in {"view_users", "access_ai_solver"}}

\* C26: while isAuthenticated is false - before initializeAuth has finished,
\* after it has failed, after a sign-out - hasRole, hasPermission,
\* hasAnyPermission and hasAllPermissions answer false for every argument.
C26_GuardDeniesWithoutPrincipal ==
  ~isAuthenticated =>
    /\ \A r \in UserRole : ~hasRole(user, r)
    /\ \A p \in Permission : ~hasPermission(user, p)
    /\ \A ps \in PermissionLists :
         ~hasAnyPermission(user, ps) /\ ~hasAllPermissions(user, ps)

(***************************************************************************)
(* Properties of the role hierarchy                                        *)
(***************************************************************************)
\* The stored role of u is raised in this step.
Raised(u) ==
  /\ exists(users, u) /\ exists(users', u)
  /\ getRoleLevel(users'[u].role) > getRoleLevel(users[u].role)

\* C27: the calls of the role assignment workflow whose acting user is an
\* admin or a user raise nobody's hierarchy level: a step that raises the
\* stored role of a user is a step of a call whose acting user holds the
\* super admin role (the calls of a run follow one another, so the stored
\* role of the acting user is the one it had when the call was made).
C27_OnlyElevatedRaises ==
  [][\A u \in UserIds :
       Raised(u) =>
         \E c \in Callers :
           /\ rp[c].pc \in {"as_commit", "rm_commit"}
           /\ rp'[c].pc # rp[c].pc
           /\ rp[c].userId = u
           /\ exists(users, rp[c].by)
           /\ users[rp[c].by].role = SUPER_ADMIN]_vars

\* The role calls of an admin have written twice, and nobody holds a higher
\* role than at the start.
C27_Witness ==
  /\ Len(audit) = 2
  /\ \A i \in 1..Len(audit) : audit[i].performedBy = "ad"
  /\ users["ad"].role = ADMIN
  /\ users["sa"].role = USER
  /\ users["us"].role = USER


\* C28: the permissions of the held Principal are those of its role.
C28_PermissionsMatchRole ==
  user # null => user.permissions = getPermissionsForRole(user.role)


\* C29: the Principal of an authenticated session was built from an active
\* profile.
C29_InstalledPrincipalIsActive ==
  (isAuthenticated /\ user # null) => user.isActive


\* C30: a role write commits only if the role the store holds for the acting
\* user when the write commits passes the assignment-validity check for the
\* role written.
C30_AssignerValidAtCommit ==
  [][\A c \in Callers :
       (/\ rp[c].pc \in {"as_commit", "rm_commit"}
        /\ rp'[c].pc # rp[c].pc
        /\ rp'[c].wrote = rp[c].wrote + 1)
       => /\ exists(users, rp[c].by)
          /\ validateRoleAssignment(users[rp[c].by].role, rp[c].newRole)]_vars

====
